---- MODULE Spec2Model ----
(***************************************************************************)
(* Model of the wikitext tokenizer (class Tokenizer and its FSM states).   *)
(* A string is a sequence of one-character strings; a token is a record    *)
(* [type, value, lineNum].                                                  *)
(***************************************************************************)
EXTENDS Integers, Sequences, FiniteSets, TLC

VARIABLES text, pos, lineNum, tokens, state, value, pc, reads, call, other

\* text .. pc are the fields of the running Tokenizer and the loop of its
\* tokenize(). reads is a history variable: reads[i] is the number of loop
\* iterations that have handed the i-th character of the text to a state.
\* call is the last call of skipAheadBy or backUpBy made from outside the
\* loop, with the value it returned. other holds the invocations of
\* tokenize that are not running: the token sequences of those that have
\* returned and the suspended one.
vars ==
  << text, pos, lineNum, tokens, state, value, pc, reads, call, other >>

-----------------------------------------------------------------------------
(* Character and marker constants.                                         *)

EOLChar == "\n"
SpaceChar == " "
SingleQuoteChar == "'"
BraceOpenChar == "{"
BraceCloseChar == "}"
AngleOpenChar == "<"
AngleCloseChar == ">"
BracketOpenChar == "["
BracketCloseChar == "]"
PipeChar == "|"
DashChar == "-"
HashChar == "#"
SlashChar == "/"
ExclamationChar == "!"
ColonChar == ":"
PlusChar == "+"

BoldMarker == << "'", "'", "'" >>
ItalicMarker == << "'", "'" >>
EndTagBeginMarker == << "<", "/" >>
CommentBeginMarker == << "<", "!", "-", "-" >>
CommentEndMarker == << "-", "-", ">" >>

-----------------------------------------------------------------------------
(* Tag tables.                                                             *)

HtmlTags ==
  <<
    << "h", "1" >>,
    << "h", "2" >>,
    << "h", "3" >>,
    << "h", "4" >>,
    << "h", "5" >>,
    << "h", "6" >>,
    << "p" >>,
    << "b", "r" >>,
    << "h", "r" >>,
    << "a", "b", "b", "r" >>,
    << "b" >>,
    << "b", "d", "i" >>,
    << "b", "d", "o" >>,
    << "b", "l", "o", "c", "k", "q", "u", "o", "t", "e" >>,
    << "c", "i", "t", "e" >>,
    << "c", "o", "d", "e" >>,
    << "d", "a", "t", "a" >>,
    << "d", "e", "l" >>,
    << "d", "f", "n" >>,
    << "e", "m" >>,
    << "i" >>,
    << "i", "n", "s" >>,
    << "k", "d", "b" >>,
    << "m", "a", "r", "k" >>,
    << "p", "r", "e" >>,
    << "q" >>,
    << "r", "p" >>,
    << "r", "t" >>,
    << "r", "u", "b", "y" >>,
    << "s" >>,
    << "s", "a", "m", "p" >>,
    << "s", "m", "a", "l", "l" >>,
    << "s", "t", "r", "o", "n", "g" >>,
    << "s", "u", "b" >>,
    << "s", "u", "p" >>,
    << "t", "i", "m", "e" >>,
    << "u" >>,
    << "v", "a", "r" >>,
    << "w", "b", "r" >>,
    << "d", "l" >>,
    << "d", "t" >>,
    << "d", "d" >>,
    << "o", "l" >>,
    << "u", "l" >>,
    << "l", "i" >>,
    << "d", "i", "v" >>,
    << "s", "p", "a", "n" >>,
    << "t", "a", "b", "l", "e" >>,
    << "t", "d" >>,
    << "t", "r" >>,
    << "t", "h" >>,
    << "c", "a", "p", "t", "i", "o", "n" >>,
    << "t", "h", "e", "a", "d" >>,
    << "t", "f", "o", "o", "t" >>,
    << "t", "b", "o", "d", "y" >>,
    << "c", "e", "n", "t", "e", "r" >>,
    << "f", "o", "n", "t" >>,
    << "r", "b" >>,
    << "s", "t", "r", "i", "k", "e" >>,
    << "t", "t" >>
  >>

ExtensionTags ==
  <<
    << "c", "a", "t", "e", "g", "o", "r", "y", "t", "r", "e", "e" >>,
    << "c", "e" >>,
    << "c", "h", "a", "r", "i", "n", "s", "e", "r", "t" >>,
    << "c", "h", "e", "m" >>,
    << "g", "a", "l", "l", "e", "r", "y" >>,
    << "g", "r", "a", "p", "h" >>,
    << "h", "i", "e", "r", "o" >>,
    << "i", "m", "a", "g", "e", "m", "a", "p" >>,
    << "i", "n", "c", "l", "u", "d", "e", "o", "n", "l", "y" >>,
    << "i", "n", "d", "i", "c", "a", "t", "o", "r" >>,
    << "i", "n", "p", "u", "t", "b", "o", "x" >>,
    << "m", "a", "p", "f", "r", "a", "m", "e" >>,
    << "m", "a", "p", "l", "i", "n", "k" >>,
    << "m", "a", "t", "h" >>,
    << "m", "a", "t", "h", " ", "c", "h", "e", "m" >>,
    << "n", "o", "i", "n", "c", "l", "u", "d", "e" >>,
    << "n", "o", "w", "i", "k", "i" >>,
    << "o", "n", "l", "y", "i", "n", "c", "l", "u", "d", "e" >>,
    << "p", "o", "e", "m" >>,
    << "p", "r", "e" >>,
    << "r", "e", "f" >>,
    << "r", "e", "f", "e", "r", "e", "n", "c", "e", "s" >>,
    << "s", "c", "o", "r", "e" >>,
    << "s", "e", "c", "t", "i", "o", "n" >>,
    << "s", "o", "u", "r", "c", "e" >>,
    << "s", "y", "n", "t", "a", "x", "h", "i", "g", "h", "l", "i", "g", "h", "t" >>,
    << "t", "e", "m", "p", "l", "a", "t", "e", "d", "a", "t", "a" >>,
    << "t", "e", "m", "p", "l", "a", "t", "e", "s", "t", "y", "l", "e", "s" >>,
    << "t", "i", "m", "e", "l", "i", "n", "e" >>
  >>

-----------------------------------------------------------------------------
(* String helpers (JavaScript String semantics on character sequences).    *)

\* s + ch, where ch is one character or the empty string.
AddCh(s, ch) == IF ch = "" THEN s ELSE Append(s, ch)

\* String.prototype.charAt: the empty string outside the text.
CharAt(s, i) == IF i >= 0 /\ i < Len(s) THEN s[i + 1] ELSE ""

\* String.prototype.substring(a, b) for 0 <= a, b.
Substring(s, a, b) ==
  LET lo == IF a < b THEN a ELSE b
      hi == IF a < b THEN b ELSE a
      l  == IF lo > Len(s) THEN Len(s) ELSE lo
      h  == IF hi > Len(s) THEN Len(s) ELSE hi
  IN  SubSeq(s, l + 1, h)

StartsWith(s, prefix) ==
  /\ Len(prefix) <= Len(s)
  /\ SubSeq(s, 1, Len(prefix)) = prefix

EndsWith(s, suffix) ==
  /\ Len(suffix) <= Len(s)
  /\ SubSeq(s, Len(s) - Len(suffix) + 1, Len(s)) = suffix

\* ch.repeat(n)
Repeat(ch, n) == [i \in 1..n |-> ch]

\* Characters String.prototype.trim removes.
WhiteSpace == { " ", "\n", "\t" }

RECURSIVE TrimStart(_)
TrimStart(s) ==
  IF Len(s) > 0 /\ s[1] \in WhiteSpace THEN TrimStart(Tail(s)) ELSE s

RECURSIVE TrimEnd(_)
TrimEnd(s) ==
  IF Len(s) > 0 /\ s[Len(s)] \in WhiteSpace
    THEN TrimEnd(SubSeq(s, 1, Len(s) - 1))
    ELSE s

Trim(s) == TrimEnd(TrimStart(s))

UpperLetters ==
  << "A", "B", "C", "D", "E", "F", "G", "H", "I", "J", "K", "L", "M",
     "N", "O", "P", "Q", "R", "S", "T", "U", "V", "W", "X", "Y", "Z" >>

LowerLetters ==
  << "a", "b", "c", "d", "e", "f", "g", "h", "i", "j", "k", "l", "m",
     "n", "o", "p", "q", "r", "s", "t", "u", "v", "w", "x", "y", "z" >>

\* The lower case of every upper case letter, and the reverse.
LowerOf ==
  [c \in { UpperLetters[i] : i \in 1..Len(UpperLetters) } |->
     LowerLetters[CHOOSE i \in 1..Len(UpperLetters) : UpperLetters[i] = c]]

UpperOf ==
  [c \in { LowerLetters[i] : i \in 1..Len(LowerLetters) } |->
     UpperLetters[CHOOSE i \in 1..Len(LowerLetters) : LowerLetters[i] = c]]

LowerCh(c) == IF c \in DOMAIN LowerOf THEN LowerOf[c] ELSE c

UpperCh(c) == IF c \in DOMAIN UpperOf THEN UpperOf[c] ELSE c

ToLowerCase(s) == [i \in 1..Len(s) |-> LowerCh(s[i])]

ToUpperCase(s) == [i \in 1..Len(s) |-> UpperCh(s[i])]

\* Counts the non-overlapping occurrences of substr in s, scanning from the
\* left as the indexOf loop does.
RECURSIVE CountFrom(_, _, _)
CountFrom(s, substr, from) ==
  IF from + Len(substr) > Len(s)
    THEN 0
    ELSE IF SubSeq(s, from + 1, from + Len(substr)) = substr
      THEN 1 + CountFrom(s, substr, from + Len(substr))
      ELSE CountFrom(s, substr, from + 1)

countSubstring(s, substr) ==
  IF Len(substr) = 0 THEN 0 ELSE CountFrom(s, substr, 0)

-----------------------------------------------------------------------------
(* Tag table predicates.                                                   *)

normalizeTagName(name) == ToLowerCase(Trim(name))

\* tags.indexOf(s) !== -1
IndexOf(tags, s) ==
  \E name \in { s } : \E i \in 1..Len(tags) : tags[i] = name

isHtmlTag(s) == IndexOf(HtmlTags, normalizeTagName(s))

isExtensionTag(s) == IndexOf(ExtensionTags, normalizeTagName(s))

isHtmlOrExtensionTag(s) == isHtmlTag(s) \/ isExtensionTag(s)

isTagPrefix(tags, s) ==
  \E normalized \in { normalizeTagName(s) } :
    \E i \in 1..Len(tags) : StartsWith(tags[i], normalized)

isHtmlTagPrefix(s) == isTagPrefix(HtmlTags, s)

isExtensionTagPrefix(s) == isTagPrefix(ExtensionTags, s)

\* Mutant: the extension tags are not looked at.
isHtmlOrExtensionTagPrefix_htmlOnly(s) == isHtmlTagPrefix(s)

isHtmlOrExtensionTagPrefix(s) == isHtmlTagPrefix(s) \/ isExtensionTagPrefix(s)

-----------------------------------------------------------------------------
(* Token buffer.                                                           *)

\* The members of enum TokenType.
TokenType ==
  { "TEXT", "EOL", "ITALIC", "BOLD", "NEW_PARAGRAPH", "OPEN_START_TAG",
    "OPEN_END_TAG", "CLOSE_ANGLE", "END_TAG", "TAG_NAME", "SIGNATURE",
    "SIGNATURE_DATETIME", "DATE_TIME", "TEMPLATE_BEGIN", "TEMPLATE_END",
    "COMMENT_BEGIN", "COMMENT_END", "HEADING_BEGIN", "HEADING_END",
    "UNORDERED_LIST_ENTRY", "NUMBERED_LIST_ENTRY", "DEFINED_PHRASE",
    "DEFINITION", "INDENT", "LINK_BEGIN", "LINK_END", "OPEN_BRACKET",
    "CLOSE_BRACKET", "PIPE", "EXCLAMATION_MARK", "SPACES", "COLONS",
    "SEMICOLONS", "DASHES", "HASHES", "ASTERISKS", "EMAIL", "REDIRECT",
    "FORCETOC", "TOC", "NOTOC", "NBSP", "SPECIAL_CHAR", "UNICODE_CHAR",
    "TABLE_BEGIN", "TABLE_END", "TABLE_CAPTION", "TABLE_ROW" }

Token(type, val, line) == [type |-> type, value |-> val, lineNum |-> line]

\* Mutant: text tokens are never merged.
combines_never(toks, token) == FALSE

\* Tokenizer.combineTextTokens: TRUE iff the new token is merged into the
\* last one.
combines(toks, token) ==
  /\ token.type = "TEXT"
  /\ Len(toks) > 0
  /\ toks[Len(toks)].type = "TEXT"

\* Mutant: a merged text token takes the line of the new token.
combineTextTokens_newLine(toks, token) ==
  LET lastToken == toks[Len(toks)]
  IN  [toks EXCEPT ![Len(toks)] =
         Token("TEXT", lastToken.value \o token.value, token.lineNum)]

combineTextTokens(toks, token) ==
  LET lastToken == toks[Len(toks)]
  IN  [toks EXCEPT ![Len(toks)] =
         Token("TEXT", lastToken.value \o token.value, lastToken.lineNum)]

\* Mutant: tokens are stamped with the line counted from 0.
storeToken_zeroBased(toks, type, val, line) ==
  LET token == Token(type, val, line - 1)
  IN  IF combines(toks, token)
        THEN combineTextTokens(toks, token)
        ELSE Append(toks, token)

\* Tokenizer.storeToken
storeToken(toks, type, val, line) ==
  LET token == Token(type, val, line)
  IN  IF combines(toks, token)
        THEN combineTextTokens(toks, token)
        ELSE Append(toks, token)

-----------------------------------------------------------------------------
(* Cursor.                                                                 *)

Cursor(p, line) == [pos |-> p, lineNum |-> line]

incLineCount(line, consumedText) ==
  line + countSubstring(consumedText, << EOLChar >>)

decLineCount(line, unconsumedText) ==
  line - countSubstring(unconsumedText, << EOLChar >>)

\* Mutant: skipping ahead is not clamped to the end of the text.
skipAheadBy_noClamp(p, line, numChars) ==
  LET np == p + numChars
  IN  Cursor(np, incLineCount(line, Substring(text, p, np)))

skipAheadBy(p, line, numChars) ==
  LET np == IF p + numChars > Len(text) THEN Len(text) ELSE p + numChars
  IN  Cursor(np, incLineCount(line, Substring(text, p, np)))

\* Mutant: backing up leaves the line counter alone.
backUpBy_keepsLine(p, line, numChars) ==
  LET np == IF p - numChars < 0 THEN 0 ELSE p - numChars
  IN  Cursor(np, line)

backUpBy(p, line, numChars) ==
  LET np == IF p - numChars < 0 THEN 0 ELSE p - numChars
  IN  Cursor(np, decLineCount(line, Substring(text, np, p)))

\* Math.min
MathMin(a, b) == IF a < b THEN a ELSE b

\* Mutant: the characters looked back at include the one in flight.
lookBackBy_inclusive(p, numChars) ==
  IF p <= 1
    THEN << >>
    ELSE LET curCharPos == p - 1
             numCharsAlreadyRead == curCharPos
             startIdx == curCharPos - MathMin(numChars, numCharsAlreadyRead)
         IN  Substring(text, startIdx + 1, curCharPos + 1)

\* Tokenizer.lookBackBy with the position at p.
lookBackBy(p, numChars) ==
  IF p <= 1
    THEN << >>
    ELSE LET curCharPos == p - 1
             numCharsAlreadyRead == curCharPos
             startIdx == curCharPos - MathMin(numChars, numCharsAlreadyRead)
         IN  Substring(text, startIdx, curCharPos)

-----------------------------------------------------------------------------
(* Token storing of the states.                                            *)

\* Mutant: every run of two or more quotes is italic.
QuoteState_storeTokens_italic(toks, v, line) ==
  LET numQuotes == Len(v)
      numPlainTextQuotes ==
        IF numQuotes > 5 THEN numQuotes - 5 ELSE IF numQuotes = 4 THEN 1 ELSE 0
      t1 == IF numPlainTextQuotes > 0
              THEN storeToken(toks, "TEXT",
                              Repeat(SingleQuoteChar, numPlainTextQuotes), line)
              ELSE toks
      t2 == IF numQuotes >= 3 THEN storeToken(t1, "BOLD", BoldMarker, line) ELSE t1
  IN  IF numQuotes >= 2 THEN storeToken(t2, "ITALIC", ItalicMarker, line) ELSE t2

QuoteState_storeTokens(toks, v, line) ==
  LET BoldQuotes == 3
      ItalicQuotes == 2
      BoldItalicQuotes == BoldQuotes + ItalicQuotes
      numQuotes == Len(v)
      numPlainTextQuotes ==
        IF numQuotes > BoldItalicQuotes
          THEN numQuotes - BoldItalicQuotes
          ELSE IF numQuotes = BoldQuotes + 1 THEN 1 ELSE 0
      isBold == numQuotes >= BoldQuotes
      isItalic == numQuotes = ItalicQuotes \/ numQuotes >= BoldItalicQuotes
      t1 == IF numPlainTextQuotes > 0
              THEN storeToken(toks, "TEXT",
                              Repeat(SingleQuoteChar, numPlainTextQuotes), line)
              ELSE toks
      t2 == IF isBold THEN storeToken(t1, "BOLD", BoldMarker, line) ELSE t1
  IN  IF isItalic THEN storeToken(t2, "ITALIC", ItalicMarker, line) ELSE t2

\* The tag name: the value without the leading '<'.
HtmlStartTagState_tagName(v) == Substring(v, 1, Len(v))

\* Mutant: the tag name is stored as written.
HtmlStartTagState_storeTokens_raw(toks, v, line) ==
  IF isHtmlOrExtensionTag(HtmlStartTagState_tagName(v))
    THEN storeToken(storeToken(toks, "OPEN_START_TAG", << AngleOpenChar >>, line),
                    "TAG_NAME", HtmlStartTagState_tagName(v), line)
    ELSE storeToken(toks, "TEXT", v, line)

\* Mutant: the text of an unrecognized tag loses its '<'.
HtmlStartTagState_storeTokens_noMarker(toks, v, line) ==
  IF isHtmlOrExtensionTag(HtmlStartTagState_tagName(v))
    THEN storeToken(storeToken(toks, "OPEN_START_TAG", << AngleOpenChar >>, line),
                    "TAG_NAME",
                    normalizeTagName(HtmlStartTagState_tagName(v)), line)
    ELSE storeToken(toks, "TEXT", HtmlStartTagState_tagName(v), line)

HtmlStartTagState_storeTokens(toks, v, line) ==
  IF isHtmlOrExtensionTag(HtmlStartTagState_tagName(v))
    THEN storeToken(storeToken(toks, "OPEN_START_TAG", << AngleOpenChar >>, line),
                    "TAG_NAME",
                    normalizeTagName(HtmlStartTagState_tagName(v)), line)
    ELSE storeToken(toks, "TEXT", v, line)

\* The tag name: the value without the leading '</'.
HtmlEndTagState_tagName(v) == Substring(v, 2, Len(v))

\* Mutant: an end tag is stored as its name only.
HtmlEndTagState_storeTokens_nameOnly(toks, v, line) ==
  IF isHtmlOrExtensionTag(HtmlEndTagState_tagName(v))
    THEN storeToken(toks, "TAG_NAME",
                    normalizeTagName(HtmlEndTagState_tagName(v)), line)
    ELSE storeToken(toks, "TEXT", v, line)

\* Mutant: an end tag is opened by the start tag marker.
HtmlEndTagState_storeTokens_startMarker(toks, v, line) ==
  IF isHtmlOrExtensionTag(HtmlEndTagState_tagName(v))
    THEN storeToken(storeToken(toks, "OPEN_START_TAG", << AngleOpenChar >>, line),
                    "TAG_NAME",
                    normalizeTagName(HtmlEndTagState_tagName(v)), line)
    ELSE storeToken(toks, "TEXT", v, line)

HtmlEndTagState_storeTokens(toks, v, line) ==
  IF isHtmlOrExtensionTag(HtmlEndTagState_tagName(v))
    THEN storeToken(storeToken(toks, "OPEN_END_TAG", EndTagBeginMarker, line),
                    "TAG_NAME",
                    normalizeTagName(HtmlEndTagState_tagName(v)), line)
    ELSE storeToken(toks, "TEXT", v, line)

\* Mutant: the comment begin marker is stored as text.
CommentStartState_storeTokens_text(toks, v, line) ==
  storeToken(toks, "TEXT", v, line)

CommentStartState_storeTokens(toks, v, line) ==
  storeToken(toks, "COMMENT_BEGIN", v, line)

AngleBracketOpenState_storeTokens(toks, v, line) ==
  storeToken(toks, "TEXT", v, line)

\* Mutant: the dashes before the comment end marker are not stored.
DashState_storeClosingAngle_noLeading(toks, v, line) ==
  IF EndsWith(v, CommentEndMarker)
    THEN storeToken(toks, "COMMENT_END", CommentEndMarker, line)
    ELSE storeToken(storeToken(toks, "DASHES", Substring(v, 0, Len(v) - 1), line),
                    "CLOSE_TAG", << AngleCloseChar >>, line)

DashState_storeClosingAngle(toks, v, line) ==
  IF EndsWith(v, CommentEndMarker)
    THEN LET leadingDashes == Substring(v, 0, Len(v) - Len(CommentEndMarker))
             t1 == IF Len(leadingDashes) > 0
                     THEN storeToken(toks, "DASHES", leadingDashes, line)
                     ELSE toks
         IN  storeToken(t1, "COMMENT_END", CommentEndMarker, line)
    ELSE storeToken(storeToken(toks, "DASHES", Substring(v, 0, Len(v) - 1), line),
                    "CLOSE_TAG", << AngleCloseChar >>, line)

\* Mutant: a run of dashes is stored as a single dash.
DashState_storeDashes_single(toks, v, line) ==
  storeToken(toks, "DASHES", << DashChar >>, line)

DashState_storeDashes(toks, v, line) == storeToken(toks, "DASHES", v, line)

\* Mutant: the pending text is stored even when it is empty.
TextState_storeTokens_always(toks, v, line) == storeToken(toks, "TEXT", v, line)

TextState_storeTokens(toks, v, line) ==
  IF Len(v) > 0 THEN storeToken(toks, "TEXT", v, line) ELSE toks

-----------------------------------------------------------------------------
(* The driving loop of Tokenizer.tokenize: one action per state's next(), *)
(* each including the read of the character and skipAheadBy(1).            *)

\* Mutant: the loop also runs at the end of the text.
LoopCond_inclusive == pos <= Len(text)

\* Loop condition of Tokenizer.tokenize.
LoopCond == pos < Len(text)

\* The character the loop hands to the current state.
CurCh == CharAt(text, pos)

\* The cursor after the loop's skipAheadBy(1).
Ahead == skipAheadBy(pos, lineNum, 1)

\* Mutant: a state backs up by two characters.
Back_twice == backUpBy(Ahead.pos, Ahead.lineNum, 2)

\* The cursor after a state's backUpBy(1).
Back == backUpBy(Ahead.pos, Ahead.lineNum, 1)

InState(st) == pc = "run" /\ LoopCond /\ state = st

\* The history of reads after the loop has read the character at pos.
Read == IF LoopCond THEN [reads EXCEPT ![pos + 1] = @ + 1] ELSE reads

\* Mutant: the token buffer is one array shared by every Tokenizer.
Goto_sharedBuffer(cursor, toks, st, v) ==
  /\ pos' = cursor.pos
  /\ lineNum' = cursor.lineNum
  /\ tokens' = toks
  /\ state' = st
  /\ value' = v
  /\ reads' = Read
  /\ other' = [other EXCEPT !.susp.tokens = toks]
  /\ UNCHANGED << text, pc, call >>

Goto(cursor, toks, st, v) ==
  /\ pos' = cursor.pos
  /\ lineNum' = cursor.lineNum
  /\ tokens' = toks
  /\ state' = st
  /\ value' = v
  /\ reads' = Read
  /\ UNCHANGED << text, pc, call, other >>

QuoteState_next ==
  /\ InState("Quote")
  /\ IF CurCh = SingleQuoteChar
       THEN Goto(Ahead, tokens, "Quote", AddCh(value, CurCh))
       ELSE Goto(Back, QuoteState_storeTokens(tokens, value, Ahead.lineNum),
                 "Text", << >>)

HtmlStartTagState_next ==
  /\ InState("HtmlStartTag")
  /\ LET newTag == AddCh(HtmlStartTagState_tagName(value), CurCh)
     IN  IF ~isHtmlOrExtensionTagPrefix(newTag)
           THEN Goto(Back,
                     HtmlStartTagState_storeTokens(tokens, value, Ahead.lineNum),
                     "Text", << >>)
           ELSE Goto(Ahead, tokens, "HtmlStartTag", AddCh(value, CurCh))

HtmlEndTagState_next ==
  /\ InState("HtmlEndTag")
  /\ LET newTag == AddCh(HtmlEndTagState_tagName(value), CurCh)
     IN  IF ~isHtmlOrExtensionTagPrefix(newTag)
           THEN Goto(Back,
                     HtmlEndTagState_storeTokens(tokens, value, Ahead.lineNum),
                     "Text", << >>)
           ELSE Goto(Ahead, tokens, "HtmlEndTag", AddCh(value, CurCh))

\* Mutant: an abandoned comment marker swallows the failing character.
CommentStartState_next_noPushback ==
  /\ InState("CommentStart")
  /\ LET newValue == AddCh(value, CurCh)
     IN  IF newValue = CommentBeginMarker
           THEN Goto(Ahead,
                     CommentStartState_storeTokens(tokens, newValue, Ahead.lineNum),
                     "Text", << >>)
           ELSE IF ~StartsWith(CommentBeginMarker, newValue)
             THEN Goto(Ahead, tokens, "Text", newValue)
             ELSE Goto(Ahead, tokens, "CommentStart", newValue)

CommentStartState_next ==
  /\ InState("CommentStart")
  /\ LET newValue == AddCh(value, CurCh)
     IN  IF newValue = CommentBeginMarker
           THEN Goto(Ahead,
                     CommentStartState_storeTokens(tokens, newValue, Ahead.lineNum),
                     "Text", << >>)
           ELSE IF ~StartsWith(CommentBeginMarker, newValue)
             THEN Goto(Back, tokens, "Text", value)
             ELSE Goto(Ahead, tokens, "CommentStart", newValue)

\* Mutant: only a letter that begins a tag name leads to the start tag state.
AngleBracketOpenState_next_noWhitespace ==
  /\ InState("AngleBracketOpen")
  /\ IF CurCh = SlashChar
       THEN Goto(Ahead, tokens, "HtmlEndTag", AddCh(value, CurCh))
       ELSE IF CurCh = ExclamationChar
         THEN Goto(Ahead, tokens, "CommentStart", AddCh(value, CurCh))
         ELSE IF CurCh \notin WhiteSpace
                 /\ isHtmlOrExtensionTagPrefix(AddCh(<< >>, CurCh))
           THEN Goto(Ahead, tokens, "HtmlStartTag", AddCh(value, CurCh))
           ELSE Goto(Back,
                     AngleBracketOpenState_storeTokens(tokens, value, Ahead.lineNum),
                     "Text", << >>)

AngleBracketOpenState_next ==
  /\ InState("AngleBracketOpen")
  /\ IF CurCh = SlashChar
       THEN Goto(Ahead, tokens, "HtmlEndTag", AddCh(value, CurCh))
       ELSE IF CurCh = ExclamationChar
         THEN Goto(Ahead, tokens, "CommentStart", AddCh(value, CurCh))
         ELSE IF isHtmlOrExtensionTagPrefix(AddCh(<< >>, CurCh))
           THEN Goto(Ahead, tokens, "HtmlStartTag", AddCh(value, CurCh))
           ELSE Goto(Back,
                     AngleBracketOpenState_storeTokens(tokens, value, Ahead.lineNum),
                     "Text", << >>)

SpaceState_next ==
  /\ InState("Space")
  /\ IF CurCh = SpaceChar
       THEN Goto(Ahead, tokens, "Space", AddCh(value, CurCh))
       ELSE Goto(Back, storeToken(tokens, "SPACES", value, Ahead.lineNum),
                 "Text", << >>)

DashState_next ==
  /\ InState("Dash")
  /\ IF CurCh = AngleCloseChar
       THEN Goto(Ahead,
                 DashState_storeClosingAngle(tokens, AddCh(value, CurCh),
                                             Ahead.lineNum),
                 "Text", << >>)
       ELSE IF CurCh = DashChar
         THEN Goto(Ahead, tokens, "Dash", AddCh(value, CurCh))
         ELSE Goto(Back, DashState_storeDashes(tokens, value, Ahead.lineNum),
                   "Text", << >>)

\* Mutant: the hash state stays current after its pushback.
HashState_next_staysOnPushback ==
  /\ InState("Hash")
  /\ IF CurCh = HashChar
       THEN Goto(Ahead, tokens, "Hash", AddCh(value, CurCh))
       ELSE Goto(Back, storeToken(tokens, "HASHES", value, Ahead.lineNum),
                 "Hash", value)

HashState_next ==
  /\ InState("Hash")
  /\ IF CurCh = HashChar
       THEN Goto(Ahead, tokens, "Hash", AddCh(value, CurCh))
       ELSE Goto(Back, storeToken(tokens, "HASHES", value, Ahead.lineNum),
                 "Text", << >>)

\* Mutant: a brace marker holds its second character only.
BraceOpenState_next_charOnly ==
  /\ InState("BraceOpen")
  /\ IF CurCh = PipeChar
       THEN Goto(Ahead,
                 storeToken(tokens, "TABLE_BEGIN", << CurCh >>, Ahead.lineNum),
                 "Text", << >>)
       ELSE IF CurCh = BraceOpenChar
         THEN Goto(Ahead,
                   storeToken(tokens, "TEMPLATE_BEGIN", << CurCh >>,
                              Ahead.lineNum),
                   "Text", << >>)
         ELSE Goto(Back, tokens, "Text", value)

BraceOpenState_next ==
  /\ InState("BraceOpen")
  /\ IF CurCh = PipeChar
       THEN Goto(Ahead,
                 storeToken(tokens, "TABLE_BEGIN", AddCh(value, CurCh),
                            Ahead.lineNum),
                 "Text", << >>)
       ELSE IF CurCh = BraceOpenChar
         THEN Goto(Ahead,
                   storeToken(tokens, "TEMPLATE_BEGIN", AddCh(value, CurCh),
                              Ahead.lineNum),
                   "Text", << >>)
         ELSE Goto(Back, tokens, "Text", value)

\* Mutant: a single '}' is stored as text at once.
BraceCloseState_next_storesText ==
  /\ InState("BraceClose")
  /\ IF CurCh = BraceCloseChar
       THEN Goto(Ahead,
                 storeToken(tokens, "TEMPLATE_END", AddCh(value, CurCh),
                            Ahead.lineNum),
                 "Text", << >>)
       ELSE Goto(Back, storeToken(tokens, "TEXT", value, Ahead.lineNum),
                 "Text", << >>)

BraceCloseState_next ==
  /\ InState("BraceClose")
  /\ IF CurCh = BraceCloseChar
       THEN Goto(Ahead,
                 storeToken(tokens, "TEMPLATE_END", AddCh(value, CurCh),
                            Ahead.lineNum),
                 "Text", << >>)
       ELSE Goto(Back, tokens, "Text", value)

BracketOpenState_next ==
  /\ InState("BracketOpen")
  /\ IF CurCh = BracketOpenChar
       THEN Goto(Ahead,
                 storeToken(tokens, "LINK_BEGIN", AddCh(value, CurCh),
                            Ahead.lineNum),
                 "Text", << >>)
       ELSE Goto(Back, storeToken(tokens, "OPEN_BRACKET", value, Ahead.lineNum),
                 "Text", << >>)

\* Mutant: ']]' is stored as a link begin.
BracketCloseState_next_linkBegin ==
  /\ InState("BracketClose")
  /\ IF CurCh = BracketCloseChar
       THEN Goto(Ahead,
                 storeToken(tokens, "LINK_BEGIN", AddCh(value, CurCh),
                            Ahead.lineNum),
                 "Text", << >>)
       ELSE Goto(Back, storeToken(tokens, "CLOSE_BRACKET", value, Ahead.lineNum),
                 "Text", << >>)

BracketCloseState_next ==
  /\ InState("BracketClose")
  /\ IF CurCh = BracketCloseChar
       THEN Goto(Ahead,
                 storeToken(tokens, "LINK_END", AddCh(value, CurCh),
                            Ahead.lineNum),
                 "Text", << >>)
       ELSE Goto(Back, storeToken(tokens, "CLOSE_BRACKET", value, Ahead.lineNum),
                 "Text", << >>)

\* Mutant: '|-' is not a table row marker.
PipeState_next_noRow ==
  /\ InState("Pipe")
  /\ IF CurCh = BraceCloseChar
       THEN Goto(Ahead,
                 storeToken(tokens, "TABLE_END", AddCh(value, CurCh),
                            Ahead.lineNum),
                 "Text", << >>)
       ELSE IF CurCh = PlusChar
         THEN Goto(Ahead,
                   storeToken(tokens, "TABLE_CAPTION", AddCh(value, CurCh),
                              Ahead.lineNum),
                   "Text", << >>)
         ELSE Goto(Back,
                   storeToken(tokens, "PIPE", << PipeChar >>, Ahead.lineNum),
                   "Text", << >>)

PipeState_next ==
  /\ InState("Pipe")
  /\ IF CurCh = BraceCloseChar
       THEN Goto(Ahead,
                 storeToken(tokens, "TABLE_END", AddCh(value, CurCh),
                            Ahead.lineNum),
                 "Text", << >>)
       ELSE IF CurCh = PlusChar
         THEN Goto(Ahead,
                   storeToken(tokens, "TABLE_CAPTION", AddCh(value, CurCh),
                              Ahead.lineNum),
                   "Text", << >>)
         ELSE IF CurCh = DashChar
           THEN Goto(Ahead,
                     storeToken(tokens, "TABLE_ROW", AddCh(value, CurCh),
                                Ahead.lineNum),
                     "Text", << >>)
           ELSE Goto(Back,
                     storeToken(tokens, "PIPE", << PipeChar >>, Ahead.lineNum),
                     "Text", << >>)

\* Mutant: a space is plain text.
charTransition_noSpace(ch) ==
  CASE ch = BraceOpenChar -> "BraceOpen"
    [] ch = BraceCloseChar -> "BraceClose"
    [] ch = BracketOpenChar -> "BracketOpen"
    [] ch = BracketCloseChar -> "BracketClose"
    [] ch = AngleOpenChar -> "AngleBracketOpen"
    [] ch = SingleQuoteChar -> "Quote"
    [] ch = PipeChar -> "Pipe"
    [] ch = DashChar -> "Dash"
    [] ch = HashChar -> "Hash"
    [] OTHER -> "undefined"

\* TextState.charTransition, the cases that construct another state: the
\* name of the state entered on ch, or "undefined".
charTransition(ch) ==
  CASE ch = BraceOpenChar -> "BraceOpen"
    [] ch = BraceCloseChar -> "BraceClose"
    [] ch = BracketOpenChar -> "BracketOpen"
    [] ch = BracketCloseChar -> "BracketClose"
    [] ch = AngleOpenChar -> "AngleBracketOpen"
    [] ch = SpaceChar -> "Space"
    [] ch = SingleQuoteChar -> "Quote"
    [] ch = PipeChar -> "Pipe"
    [] ch = DashChar -> "Dash"
    [] ch = HashChar -> "Hash"
    [] OTHER -> "undefined"

\* Mutant: a closing angle bracket is plain text.
singleCharacterType_noCloseTag(ch) ==
  CASE ch = ExclamationChar -> "EXCLAMATION_MARK"
    [] ch = ColonChar -> "COLON"
    [] ch = EOLChar -> "EOL"
    [] OTHER -> "undefined"

\* Mutant: a colon is an indentation token.
singleCharacterType_indent(ch) ==
  CASE ch = AngleCloseChar -> "CLOSE_TAG"
    [] ch = ExclamationChar -> "EXCLAMATION_MARK"
    [] ch = ColonChar -> "INDENT"
    [] ch = EOLChar -> "EOL"
    [] OTHER -> "undefined"

\* TextState.charTransition, the cases that call processSingleCharacterToken:
\* the type of the single character token for ch, or "undefined".
singleCharacterType(ch) ==
  CASE ch = AngleCloseChar -> "CLOSE_TAG"
    [] ch = ExclamationChar -> "EXCLAMATION_MARK"
    [] ch = ColonChar -> "COLON"
    [] ch = EOLChar -> "EOL"
    [] OTHER -> "undefined"

\* Mutant: the collected text is lost when a single character token is stored.
processSingleCharacterToken_noFlush(toks, v, type, ch, line) ==
  storeToken(toks, type, << ch >>, line)

\* Stores the collected text, then the single character token.
processSingleCharacterToken(toks, v, type, ch, line) ==
  storeToken(TextState_storeTokens(toks, v, line), type, << ch >>, line)

TextState_next ==
  /\ InState("Text")
  /\ IF singleCharacterType(CurCh) # "undefined"
       THEN \* processSingleCharacterToken empties the value, so the
            \* storeTokens call of next() stores nothing more.
            Goto(Ahead,
                 TextState_storeTokens(
                   processSingleCharacterToken(tokens, value,
                     singleCharacterType(CurCh), CurCh, Ahead.lineNum),
                   << >>, Ahead.lineNum),
                 "Text", << >>)
       ELSE IF charTransition(CurCh) # "undefined"
         THEN Goto(Ahead, TextState_storeTokens(tokens, value, Ahead.lineNum),
                   charTransition(CurCh), << CurCh >>)
         ELSE Goto(Ahead, tokens, "Text", AddCh(value, CurCh))

\* Mutant: an incomplete comment or brace marker is dropped at the end of
\* the input.
terminate_dropsMarker(st, toks, v, line) ==
  CASE st = "Text" -> TextState_storeTokens(toks, v, line)
    [] st = "Quote" -> QuoteState_storeTokens(toks, v, line)
    [] st = "HtmlStartTag" -> HtmlStartTagState_storeTokens(toks, v, line)
    [] st = "HtmlEndTag" -> HtmlEndTagState_storeTokens(toks, v, line)
    [] st = "CommentStart" -> toks
    [] st = "AngleBracketOpen" -> AngleBracketOpenState_storeTokens(toks, v, line)
    [] st = "Space" -> storeToken(toks, "SPACES", v, line)
    [] st = "Dash" -> DashState_storeDashes(toks, v, line)
    [] st = "Hash" -> storeToken(toks, "HASHES", v, line)
    [] st = "BraceOpen" -> toks
    [] st = "BraceClose" -> toks
    [] st = "BracketOpen" -> storeToken(toks, "OPEN_BRACKET", v, line)
    [] st = "BracketClose" -> storeToken(toks, "CLOSE_BRACKET", v, line)
    [] st = "Pipe" -> storeToken(toks, "PIPE", << PipeChar >>, line)

\* terminate() of the state that is active when the input has ended.
terminate(st, toks, v, line) ==
  CASE st = "Text" -> TextState_storeTokens(toks, v, line)
    [] st = "Quote" -> QuoteState_storeTokens(toks, v, line)
    [] st = "HtmlStartTag" -> HtmlStartTagState_storeTokens(toks, v, line)
    [] st = "HtmlEndTag" -> HtmlEndTagState_storeTokens(toks, v, line)
    [] st = "CommentStart" -> TextState_storeTokens(toks, v, line)
    [] st = "AngleBracketOpen" -> AngleBracketOpenState_storeTokens(toks, v, line)
    [] st = "Space" -> storeToken(toks, "SPACES", v, line)
    [] st = "Dash" -> DashState_storeDashes(toks, v, line)
    [] st = "Hash" -> storeToken(toks, "HASHES", v, line)
    [] st = "BraceOpen" -> TextState_storeTokens(toks, v, line)
    [] st = "BraceClose" -> TextState_storeTokens(toks, v, line)
    [] st = "BracketOpen" -> storeToken(toks, "OPEN_BRACKET", v, line)
    [] st = "BracketClose" -> storeToken(toks, "CLOSE_BRACKET", v, line)
    [] st = "Pipe" -> storeToken(toks, "PIPE", << PipeChar >>, line)

\* Mutant: the current state may terminate before the input has ended.
Terminate_anytime ==
  /\ pc = "run"
  /\ tokens' = terminate(state, tokens, value, lineNum)
  /\ pc' = "done"
  /\ UNCHANGED << text, pos, lineNum, state, value, reads, call, other >>

\* The end of Tokenizer.tokenize: the loop has ended, the current state
\* terminates and the token buffer is returned.
Terminate ==
  /\ pc = "run"
  /\ ~LoopCond
  /\ tokens' = terminate(state, tokens, value, lineNum)
  /\ pc' = "done"
  /\ UNCHANGED << text, pos, lineNum, state, value, reads, call, other >>

-----------------------------------------------------------------------------
(* Inputs.                                                                 *)

\* Longest input of the exhaustive family.
MaxLen == 3

\* Longest quote run of the quote family.
MaxQuotes == 7

\* Most spaces on either side of a tag name in the tag family.
MaxPad == 2

\* Longest name of the unknown-name family.
MaxName == 3

\* Characters of the exhaustive family: every character some state tests
\* for, and letters that are a tag ("p"), a tag prefix only ("a"), no tag
\* prefix ("x") and upper case ("P").
Alphabet ==
  { EOLChar, SpaceChar, SingleQuoteChar, BraceOpenChar, BraceCloseChar,
    AngleOpenChar, AngleCloseChar, BracketOpenChar, BracketCloseChar,
    PipeChar, DashChar, HashChar, SlashChar, ExclamationChar, ColonChar,
    PlusChar, "a", "p", "x", "P" }

\* Letters of the unknown-name family: they spell tags ("b", "i", "bdi",
\* "div"), tag prefixes, and names that are neither; "D" is upper case.
NameLetters == { "b", "d", "i", "v", "x", "D" }

Strings(chars, n) == UNION { [1..k -> chars] : k \in 0..n }

Range(s) == { s[i] : i \in 1..Len(s) }

\* Every string over Alphabet of at most MaxLen characters.
ShortInputs == Strings(Alphabet, MaxLen)

Affixes == Strings(Alphabet, 1)

\* A run of 1..MaxQuotes quotes with at most one character on each side.
QuoteInputs ==
  { pre \o Repeat(SingleQuoteChar, n) \o post :
      pre \in Affixes, n \in 1..MaxQuotes, post \in Affixes }

TagNames == Range(HtmlTags) \cup Range(ExtensionTags)

TagMarkers == { << AngleOpenChar >>, EndTagBeginMarker }

TagTails == { << >>, << AngleCloseChar >> }

\* A start or end tag of every table entry, in lower or upper case, padded
\* with spaces, closed by '>' or cut off by the end of the input.
TagInputs ==
  { m \o Repeat(SpaceChar, l) \o n \o Repeat(SpaceChar, r) \o t :
      m \in TagMarkers,
      l \in 0..MaxPad,
      n \in TagNames \cup { ToUpperCase(tn) : tn \in TagNames },
      r \in 0..MaxPad,
      t \in TagTails }

Names == Strings(NameLetters, MaxName) \ { << >> }

\* '<name>' and '</name>' for every name of letters of NameLetters.
NameInputs ==
  { m \o n \o << AngleCloseChar >> : m \in TagMarkers, n \in Names }

\* Most dashes on either side of a comment body in the comment family.
MaxDashes == 4

\* '<!', dashes, at most one character, dashes, closed by '>' or cut off:
\* comment markers that are complete, incomplete or have extra dashes.
CommentInputs ==
  { << AngleOpenChar, ExclamationChar >> \o Repeat(DashChar, a) \o mid
      \o Repeat(DashChar, b) \o t :
      a \in 0..MaxDashes, mid \in Affixes, b \in 0..MaxDashes, t \in TagTails }

\* Longest run of the run family.
MaxRun == 4

RunChars == { SpaceChar, DashChar, HashChar }

\* A run of 1..MaxRun spaces, dashes or hashes with at most one character
\* on each side.
RunInputs ==
  { pre \o Repeat(c, n) \o post :
      pre \in Affixes, c \in RunChars, n \in 1..MaxRun, post \in Affixes }

\* '<!-- comment ----->': a comment whose end marker has extra dashes.
CommentExample ==
  << "<", "!", "-", "-", " ", "c", "o", "m", "m", "e", "n", "t", " ",
     "-", "-", "-", "-", "-", ">" >>

\* Longest run of the tilde family.
MaxTildes == 8

\* A run of 1..MaxTildes tildes followed by at most one character.
TildeInputs ==
  { Repeat("~", n) \o post : n \in 1..MaxTildes, post \in Affixes }

\* Longest run of the colon family.
MaxColons == 4

\* A run of 1..MaxColons colons followed by at most one character.
ColonInputs ==
  { Repeat(ColonChar, n) \o post : n \in 1..MaxColons, post \in Affixes }

Inputs ==
  ShortInputs \cup QuoteInputs \cup TagInputs \cup NameInputs
    \cup CommentInputs \cup RunInputs
    \cup { CommentExample } \cup TildeInputs \cup ColonInputs

-----------------------------------------------------------------------------
(* Specification.                                                          *)

\* No call of the cursor from outside the loop.
NoCall == [op |-> "none", n |-> 0, ret |-> 0]

\* tokenize(t) at its start: a new Tokenizer on t, before the first loop
\* iteration.
Fresh(t) ==
  [text |-> t, pos |-> 0, lineNum |-> 1, tokens |-> << >>, state |-> "Text",
   value |-> << >>, pc |-> "run", reads |-> [i \in 1..Len(t) |-> 0]]

\* No other invocation: a single call of tokenize.
NoOther == [phase |-> 0, active |-> 1, results |-> << >>, susp |-> Fresh(<< >>)]

\* tokenize(text): a new Tokenizer on text, the loop starts in TextState.
Init ==
  /\ text \in Inputs
  /\ pos = 0
  /\ lineNum = 1
  /\ tokens = << >>
  /\ state = "Text"
  /\ value = << >>
  /\ pc = "run"
  /\ reads = [i \in 1..Len(text) |-> 0]
  /\ call = NoCall
  /\ other = NoOther

Next ==
  \/ TextState_next
  \/ QuoteState_next
  \/ HtmlStartTagState_next
  \/ HtmlEndTagState_next
  \/ CommentStartState_next
  \/ AngleBracketOpenState_next
  \/ SpaceState_next
  \/ DashState_next
  \/ HashState_next
  \/ BraceOpenState_next
  \/ BraceCloseState_next
  \/ BracketOpenState_next
  \/ BracketCloseState_next
  \/ PipeState_next
  \/ Terminate

Spec == Init /\ [][Next]_vars

\* Longest tail of the seeded family.
MaxTail == 1

\* One input prefix for every state of the FSM: read from the default
\* state, it leaves that state current.
StateSeeds ==
  { << >>,
    << SingleQuoteChar >>,
    << AngleOpenChar >>,
    << AngleOpenChar, SlashChar >>,
    << AngleOpenChar, ExclamationChar >>,
    << AngleOpenChar, ExclamationChar, DashChar >>,
    << AngleOpenChar, "p" >>,
    << SpaceChar >>,
    << DashChar >>,
    << HashChar >>,
    << BraceOpenChar >>,
    << BraceCloseChar >>,
    << BracketOpenChar >>,
    << BracketCloseChar >>,
    << PipeChar >> }

\* One character of every kind the states tell apart.
TailAlphabet ==
  { SingleQuoteChar, AngleOpenChar, AngleCloseChar, SlashChar,
    ExclamationChar, DashChar, BraceOpenChar, PipeChar, SpaceChar, EOLChar,
    "p", "x" }

\* Every state, followed by every tail of at most MaxTail characters.
SeededInputs ==
  { seed \o tail : seed \in StateSeeds, tail \in Strings(TailAlphabet, MaxTail) }

FairInit ==
  /\ text \in SeededInputs
  /\ pos = 0
  /\ lineNum = 1
  /\ tokens = << >>
  /\ state = "Text"
  /\ value = << >>
  /\ pc = "run"
  /\ reads = [i \in 1..Len(text) |-> 0]
  /\ call = NoCall
  /\ other = NoOther

\* tokenize runs synchronously to completion: the loop always takes its
\* next step.
FairSpec == FairInit /\ [][Next]_vars /\ WF_vars(Next)

-----------------------------------------------------------------------------
(* The cursor used on its own: any sequence of skipAheadBy and backUpBy    *)
(* calls on a new Tokenizer.                                               *)

\* Longest input of the cursor family.
MaxCursorLen == 4

\* Largest number of characters of a call.
MaxSkip == 3

CursorInputs == Strings({ "a", EOLChar }, MaxCursorLen)

CursorInit ==
  /\ text \in CursorInputs
  /\ pos = 0
  /\ lineNum = 1
  /\ tokens = << >>
  /\ state = "Text"
  /\ value = << >>
  /\ pc = "cursor"
  /\ reads = [i \in 1..Len(text) |-> 0]
  /\ call = NoCall
  /\ other = NoOther

\* The fields after a cursor call that left cursor c, and its return value.
Called(op, numChars, c) ==
  /\ pc = "cursor"
  /\ pos' = c.pos
  /\ lineNum' = c.lineNum
  /\ call' = [op |-> op, n |-> numChars, ret |-> c.pos]
  /\ UNCHANGED << text, tokens, state, value, pc, reads, other >>

CallSkipAheadBy(numChars) ==
  Called("skipAheadBy", numChars, skipAheadBy(pos, lineNum, numChars))

CallBackUpBy(numChars) ==
  Called("backUpBy", numChars, backUpBy(pos, lineNum, numChars))

CallLookBackBy(numChars) ==
  /\ pc = "cursor"
  /\ call' = [op |-> "lookBackBy", n |-> numChars,
              ret |-> lookBackBy(pos, numChars)]
  /\ UNCHANGED << text, pos, lineNum, tokens, state, value, pc, reads, other >>

CursorNext ==
  \E numChars \in 0..MaxSkip :
    \/ CallSkipAheadBy(numChars)
    \/ CallBackUpBy(numChars)
    \/ CallLookBackBy(numChars)

CursorSpec == CursorInit /\ [][CursorNext]_vars

-----------------------------------------------------------------------------
(* Two invocations of tokenize. Each is first run alone, one after the     *)
(* other; then both are started again and their loop iterations are        *)
(* interleaved in every order.                                             *)

\* One character of text and one newline.
PairTails == { "x", EOLChar }

\* Every state of the FSM followed by one character.
PairInputs == { seed \o << c >> : seed \in StateSeeds, c \in PairTails }

\* The running invocation as a record.
Current ==
  [text |-> text, pos |-> pos, lineNum |-> lineNum, tokens |-> tokens,
   state |-> state, value |-> value, pc |-> pc, reads |-> reads]

\* Invocation r becomes the running one.
Resume(r) ==
  /\ text' = r.text
  /\ pos' = r.pos
  /\ lineNum' = r.lineNum
  /\ tokens' = r.tokens
  /\ state' = r.state
  /\ value' = r.value
  /\ pc' = r.pc
  /\ reads' = r.reads

PairInit ==
  \E t1 \in PairInputs, t2 \in PairInputs :
    /\ text = t1
    /\ pos = 0
    /\ lineNum = 1
    /\ tokens = << >>
    /\ state = "Text"
    /\ value = << >>
    /\ pc = "run"
    /\ reads = [i \in 1..Len(t1) |-> 0]
    /\ call = NoCall
    /\ other = [phase |-> 1, active |-> 1, results |-> << >>, susp |-> Fresh(t2)]

\* An invocation that ran alone has returned: its token sequence is kept,
\* the other invocation starts, and this one is set to start again.
NextInvocation ==
  /\ other.phase \in { 1, 2 }
  /\ pc = "done"
  /\ Resume(other.susp)
  /\ other' = [phase |-> other.phase + 1,
               active |-> 3 - other.active,
               results |-> Append(other.results, tokens),
               susp |-> Fresh(text)]
  /\ UNCHANGED call

\* Between two loop iterations the other invocation takes over.
Switch ==
  /\ other.phase = 3
  /\ other.susp.pc = "run"
  /\ Resume(other.susp)
  /\ other' = [other EXCEPT !.active = 3 - @, !.susp = Current]
  /\ UNCHANGED call

PairNext == Next \/ NextInvocation \/ Switch

PairSpec == PairInit /\ [][PairNext]_vars

-----------------------------------------------------------------------------
(* Helpers of the properties.                                              *)

RECURSIVE Concat(_)
Concat(toks) ==
  IF Len(toks) = 0 THEN << >> ELSE Head(toks).value \o Concat(Tail(toks))

\* Kind and value of a token, without its line.
TV(type, val) == [type |-> type, value |-> val]

Kinds(toks) == [i \in 1..Len(toks) |-> TV(toks[i].type, toks[i].value)]

\* The buffer after storing the tokens of seq, in order, through storeToken.
RECURSIVE StoreAll(_, _)
StoreAll(toks, seq) ==
  IF Len(seq) = 0
    THEN toks
    ELSE StoreAll(storeToken(toks, Head(seq).type, Head(seq).value, 0), Tail(seq))

Done == pc = "done"

-----------------------------------------------------------------------------
(* C1. Round trip: when tokenize has returned, the values of the tokens,   *)
(* concatenated in order, are the input.                                   *)
RoundTrip == Done => Concat(tokens) = text

(* C2. Totality: for every input the loop ends and tokenize returns.       *)
Totality == <>Done

\* tokenize has returned after a pushback: '<!' was abandoned at the 'x'.
TotalityWitness ==
  /\ Done
  /\ pos = Len(text)
  /\ text = << AngleOpenChar, ExclamationChar, "x" >>
  /\ Len(tokens) = 1

(* C3. No empty tokens: every token of the buffer has a value of at least  *)
(* one character, during tokenization and in the output.                   *)
NoEmptyTokens == \A i \in 1..Len(tokens) : Len(tokens[i].value) >= 1

\* The default state flushed with nothing pending: the output starts with
\* a token that is not text.
NoEmptyTokensWitness ==
  /\ Done
  /\ Len(tokens) >= 2
  /\ tokens[1].type # "TEXT"
  /\ tokens[2].type # "TEXT"

(* C4. Text merge: the buffer never holds two adjacent TEXT tokens.        *)
TextMerge ==
  \A i \in 1..(Len(tokens) - 1) :
    ~(tokens[i].type = "TEXT" /\ tokens[i + 1].type = "TEXT")

\* '<x': the text '<' of the open-angle state and the text 'x' of the
\* default state have become one token.
TextMergeWitness ==
  /\ Done
  /\ text = << AngleOpenChar, "x" >>
  /\ Kinds(tokens) = << TV("TEXT", << AngleOpenChar, "x" >>) >>

(* C5. Quote rule table: when a run of n >= 2 quotes ends, by another      *)
(* character or by the end of the input, the quote state stores a TEXT of  *)
(* p quotes if p > 0 (p = 1 for n = 4, n - 5 for n > 5, else 0), then BOLD *)
(* iff n >= 3, then ITALIC iff n = 2 or n >= 5, and nothing else.          *)
QuoteRuleTokens(n) ==
  LET p == IF n = 4 THEN 1 ELSE IF n > 5 THEN n - 5 ELSE 0
  IN  (IF p > 0 THEN << TV("TEXT", Repeat(SingleQuoteChar, p)) >> ELSE << >>)
      \o (IF n >= 3 THEN << TV("BOLD", BoldMarker) >> ELSE << >>)
      \o (IF n = 2 \/ n >= 5 THEN << TV("ITALIC", ItalicMarker) >> ELSE << >>)

QuoteRunEnds == state = "Quote" /\ (pc' = "done" \/ state' = "Text")

QuoteRule ==
  [][(QuoteRunEnds /\ Len(value) >= 2)
       => Kinds(tokens') = Kinds(StoreAll(tokens, QuoteRuleTokens(Len(value))))]_vars

\* A run of six quotes has ended: one literal quote, bold, italic.
QuoteRuleWitness ==
  /\ Done
  /\ text = Repeat(SingleQuoteChar, 6)
  /\ Len(tokens) = 3

(* C6. Tag recognition rule: when, in the start-tag or end-tag state, the  *)
(* name so far plus the next character is no prefix of any table entry, or *)
(* the input ends: a name that is a table entry after normalization gives  *)
(* the marker token ('<' or '</') followed by a TAG_NAME token, any other  *)
(* name gives the whole accumulated text as one TEXT token; a failing      *)
(* character is pushed back and the default state resumes.                 *)
TagOutcome(st, marker, openType) ==
  LET name == SubSeq(value, Len(marker) + 1, Len(value))
      fails == /\ pos < Len(text)
               /\ ~isHtmlOrExtensionTagPrefix(Append(name, text[pos + 1]))
      ends == pos = Len(text)
      n == Len(tokens)
  IN  (state = st /\ pc = "run" /\ (fails \/ ends)) =>
        /\ IF normalizeTagName(name) \in Range(HtmlTags) \cup Range(ExtensionTags)
             THEN /\ Len(tokens') = n + 2
                  /\ SubSeq(tokens', 1, n) = tokens
                  /\ tokens'[n + 1].type = openType
                  /\ tokens'[n + 1].value = marker
                  /\ tokens'[n + 2].type = "TAG_NAME"
             ELSE Kinds(tokens') = Kinds(storeToken(tokens, "TEXT", value, 0))
        /\ fails => (pos' = pos /\ state' = "Text" /\ value' = << >>)

TagRule ==
  [][/\ TagOutcome("HtmlStartTag", << "<" >>, "OPEN_START_TAG")
     /\ TagOutcome("HtmlEndTag", << "<", "/" >>, "OPEN_END_TAG")]_vars

\* An end tag was recognized and its failing '>' is about to be read again.
TagRuleWitness ==
  /\ pc = "run"
  /\ state = "Text"
  /\ Len(tokens) = 2
  /\ tokens[1].type = "OPEN_END_TAG"
  /\ tokens[2].type = "TAG_NAME"
  /\ pos < Len(text)
  /\ text[pos + 1] = AngleCloseChar

(* C7. Every table entry is recognizable: for every name t of the two tag  *)
(* tables, '<t>' gives OPEN_START_TAG '<', TAG_NAME t, closing angle '>',  *)
(* and '</t>' gives OPEN_END_TAG '</', TAG_NAME t, closing angle '>'.      *)
TagsRecognized ==
  Done =>
    \A t \in TagNames :
      /\ text = << "<" >> \o t \o << ">" >> =>
           Kinds(tokens) = << TV("OPEN_START_TAG", << "<" >>), TV("TAG_NAME", t),
                              TV("CLOSE_TAG", << ">" >>) >>
      /\ text = << "<", "/" >> \o t \o << ">" >> =>
           Kinds(tokens) = << TV("OPEN_END_TAG", << "<", "/" >>), TV("TAG_NAME", t),
                              TV("CLOSE_TAG", << ">" >>) >>

\* '<math chem>' has been tokenized.
TagsRecognizedWitness ==
  /\ Done
  /\ text = << "<", "m", "a", "t", "h", " ", "c", "h", "e", "m", ">" >>
  /\ Len(tokens) = 3
  /\ tokens[2].type = "TAG_NAME"

(* C8. Tag-name normalization: the value of every TAG_NAME token is an     *)
(* entry of the HTML or extension tag table, whatever case or padding the  *)
(* input used.                                                             *)
TagNameNormalized ==
  \A i \in 1..Len(tokens) :
    tokens[i].type = "TAG_NAME" => tokens[i].value \in TagNames

\* '<DIV>' has given the tag name 'div'.
TagNameNormalizedWitness ==
  /\ Done
  /\ text = << "<", "D", "I", "V", ">" >>
  /\ Len(tokens) = 3
  /\ tokens[2] = Token("TAG_NAME", << "d", "i", "v" >>, 1)

(* C9. Unrecognized tag name degrades to text.                             *)
IsLetter(c) == c \in DOMAIN LowerOf \cup DOMAIN UpperOf

\* text is marker, name, '>' with a non-empty name made of letters.
IsNameInput(marker) ==
  /\ Len(text) >= Len(marker) + 2
  /\ StartsWith(text, marker)
  /\ text[Len(text)] = AngleCloseChar
  /\ \A i \in (Len(marker) + 1)..(Len(text) - 1) : IsLetter(text[i])

NameOf(marker) == SubSeq(text, Len(marker) + 1, Len(text) - 1)

TextThenCloseAngle(marker) ==
  Kinds(tokens) = << TV("TEXT", marker \o NameOf(marker)),
                     TV("CLOSE_TAG", << AngleCloseChar >>) >>

\* The claim as stated: every name of letters that is no table entry gives
\* TEXT marker + name, then the closing angle.
UnknownNameIsText ==
  Done =>
    \A marker \in TagMarkers :
      (IsNameInput(marker) /\ ~isHtmlOrExtensionTag(NameOf(marker)))
        => TextThenCloseAngle(marker)

\* The longest leading part of name that is a prefix of a table entry.
LongestTagPrefix(name) ==
  LET ks == { k \in 0..Len(name) : isHtmlOrExtensionTagPrefix(SubSeq(name, 1, k)) }
  IN  SubSeq(name, 1, CHOOSE k \in ks : \A j \in ks : j <= k)

\* Amended: the same result for every name of letters whose longest leading
\* part that is a prefix of a table entry is not itself a table entry.
UnknownNameIsTextAmended ==
  Done =>
    \A marker \in TagMarkers :
      (IsNameInput(marker) /\ ~isHtmlOrExtensionTag(LongestTagPrefix(NameOf(marker))))
        => TextThenCloseAngle(marker)

\* '<dix>': 'di' is a prefix of 'div' and no tag.
UnknownNameIsTextWitness ==
  /\ Done
  /\ text = << "<", "d", "i", "x", ">" >>
  /\ Len(tokens) = 2
  /\ tokens[1].type = "TEXT"

(* C10. A lone quote degrades to text: when the input holds a quote with   *)
(* no quote next to it, the output has a TEXT token holding a quote.       *)
HasLoneQuote ==
  \E i \in 1..Len(text) :
    /\ text[i] = SingleQuoteChar
    /\ i = 1 \/ text[i - 1] # SingleQuoteChar
    /\ i = Len(text) \/ text[i + 1] # SingleQuoteChar

LoneQuoteIsText ==
  (Done /\ HasLoneQuote) =>
    \E i \in 1..Len(tokens) :
      /\ tokens[i].type = "TEXT"
      /\ SingleQuoteChar \in Range(tokens[i].value)

\* The step reads the character ch in state st.
Reads(st, ch) ==
  /\ pc = "run"
  /\ state = st
  /\ pos < Len(text)
  /\ text[pos + 1] = ch

\* The step reads, in state st, a character that is not in chars.
ReadsOther(st, chars) ==
  /\ pc = "run"
  /\ state = st
  /\ pos < Len(text)
  /\ text[pos + 1] \notin chars

\* The step appends exactly the tokens of seq (kinds and values).
Appends(seq) == Kinds(tokens') = Kinds(tokens) \o seq

\* The step consumes its character and enters the default state with
\* nothing pending.
ToDefault == pos' = pos + 1 /\ state' = "Text" /\ value' = << >>

\* The step pushes its character back and enters the default state with
\* pending text v.
PushedBack(v) == pos' = pos /\ state' = "Text" /\ value' = v

(* C11. Dash run ended by '>': when the dash state holds k >= 1 dashes and *)
(* reads '>', it stores DASHES of k - 2 dashes (only when k > 2) followed  *)
(* by COMMENT_END '-->' if k >= 2, and DASHES '-' followed by a closing    *)
(* angle '>' if k = 1; the default state follows without pushback.         *)
DashRunTokens(k) ==
  IF k >= 2
    THEN (IF k > 2 THEN << TV("DASHES", Repeat(DashChar, k - 2)) >> ELSE << >>)
         \o << TV("COMMENT_END", << "-", "-", ">" >>) >>
    ELSE << TV("DASHES", << DashChar >>), TV("CLOSE_TAG", << AngleCloseChar >>) >>

DashRunClosed ==
  [][Reads("Dash", AngleCloseChar) =>
       /\ Len(value) >= 1
       /\ value = Repeat(DashChar, Len(value))
       /\ Appends(DashRunTokens(Len(value)))
       /\ ToDefault]_vars

\* Three dashes and '>' at the start of the second line.
DashRunClosedWitness ==
  /\ Done
  /\ text = << "<", "!", "\n", "-", "-", "-", ">" >>
  /\ Len(tokens) = 4
  /\ tokens[3].type = "DASHES"
  /\ tokens[4].type = "COMMENT_END"

(* C12. Comment-open recognition: the comment-start state with '<!' reads  *)
(* '-' and keeps reading; with '<!-' it reads '-', stores exactly one      *)
(* COMMENT_BEGIN '<!--' and the default state follows with nothing         *)
(* pending, so '<!---->' is COMMENT_BEGIN, COMMENT_END.                    *)
CommentOpenStep ==
  /\ (Reads("CommentStart", DashChar) /\ value = << "<", "!" >>) =>
       /\ tokens' = tokens
       /\ pos' = pos + 1
       /\ state' = "CommentStart"
       /\ value' = << "<", "!", "-" >>
  /\ (Reads("CommentStart", DashChar) /\ value = << "<", "!", "-" >>) =>
       /\ Appends(<< TV("COMMENT_BEGIN", << "<", "!", "-", "-" >>) >>)
       /\ ToDefault

EmptyComment ==
  (Done /\ text = << "<", "!", "-", "-", "-", "-", ">" >>) =>
    Kinds(tokens) = << TV("COMMENT_BEGIN", << "<", "!", "-", "-" >>),
                       TV("COMMENT_END", << "-", "-", ">" >>) >>

CommentOpen == [][CommentOpenStep]_vars /\ []EmptyComment

\* '<!---->' has been tokenized.
CommentOpenWitness ==
  /\ Done
  /\ text = << "<", "!", "-", "-", "-", "-", ">" >>
  /\ Len(tokens) = 2
  /\ tokens[1].type = "COMMENT_BEGIN"

(* C13. Comment-open abandonment: when, in the comment-start state, the   *)
(* value plus the next character is no prefix of '<!--', the step stores   *)
(* no token, pushes the character back and resumes the default state with  *)
(* the accumulated '<!' or '<!-' pending; that text ends up in a TEXT      *)
(* token.                                                                  *)
CommentAbandonStep ==
  (/\ pc = "run"
   /\ state = "CommentStart"
   /\ pos < Len(text)
   /\ ~StartsWith(<< "<", "!", "-", "-" >>, Append(value, text[pos + 1])))
    => /\ value \in { << "<", "!" >>, << "<", "!", "-" >> }
       /\ tokens' = tokens
       /\ PushedBack(value)

\* The text that an input starting with an abandoned comment marker leaves
\* pending, or the empty string for any other input.
AbandonedMarker ==
  IF Len(text) >= 3 /\ SubSeq(text, 1, 2) = << "<", "!" >> /\ text[3] # "-"
    THEN << "<", "!" >>
    ELSE IF Len(text) >= 4 /\ SubSeq(text, 1, 3) = << "<", "!", "-" >>
              /\ text[4] # "-"
      THEN << "<", "!", "-" >>
      ELSE << >>

AbandonedIsText ==
  (Done /\ AbandonedMarker # << >>) =>
    /\ Len(tokens) >= 1
    /\ tokens[1].type = "TEXT"
    /\ StartsWith(tokens[1].value, AbandonedMarker)

CommentAbandon == [][CommentAbandonStep]_vars /\ []AbandonedIsText

\* '<!-x': the marker was abandoned at 'x', which is about to be read again.
CommentAbandonWitness ==
  /\ pc = "run"
  /\ state = "Text"
  /\ text = << "<", "!", "-", "x" >>
  /\ value = << "<", "!", "-" >>
  /\ pos = 3
  /\ tokens = << >>

(* C14. Brace markers: the brace-open state stores TEMPLATE_BEGIN '{{' on  *)
(* '{' and TABLE_BEGIN '{|' on '|'; the brace-close state stores           *)
(* TEMPLATE_END '}}' on '}'; on any other character no token is stored,    *)
(* the character is pushed back and the seed brace is the pending text of  *)
(* the default state.                                                      *)
BraceMarkerStep ==
  /\ Reads("BraceOpen", "{") =>
       Appends(<< TV("TEMPLATE_BEGIN", << "{", "{" >>) >>) /\ ToDefault
  /\ Reads("BraceOpen", "|") =>
       Appends(<< TV("TABLE_BEGIN", << "{", "|" >>) >>) /\ ToDefault
  /\ Reads("BraceClose", "}") =>
       Appends(<< TV("TEMPLATE_END", << "}", "}" >>) >>) /\ ToDefault
  /\ ReadsOther("BraceOpen", { "{", "|" }) =>
       tokens' = tokens /\ PushedBack(<< "{" >>)
  /\ ReadsOther("BraceClose", { "}" }) =>
       tokens' = tokens /\ PushedBack(<< "}" >>)

BraceMarkers == [][BraceMarkerStep]_vars

\* '}x': the '}' is pending text and 'x' is about to be read again.
BraceMarkersWitness ==
  /\ pc = "run"
  /\ state = "Text"
  /\ text = << "}", "x" >>
  /\ value = << "}" >>
  /\ pos = 1
  /\ tokens = << >>

(* C15. Bracket markers: the bracket-open state stores LINK_BEGIN '[[' on  *)
(* '[', otherwise OPEN_BRACKET '[' and the character is pushed back; the   *)
(* bracket-close state stores LINK_END ']]' on ']', otherwise              *)
(* CLOSE_BRACKET ']' and the character is pushed back.                     *)
BracketMarkerStep ==
  /\ Reads("BracketOpen", "[") =>
       Appends(<< TV("LINK_BEGIN", << "[", "[" >>) >>) /\ ToDefault
  /\ ReadsOther("BracketOpen", { "[" }) =>
       Appends(<< TV("OPEN_BRACKET", << "[" >>) >>) /\ PushedBack(<< >>)
  /\ Reads("BracketClose", "]") =>
       Appends(<< TV("LINK_END", << "]", "]" >>) >>) /\ ToDefault
  /\ ReadsOther("BracketClose", { "]" }) =>
       Appends(<< TV("CLOSE_BRACKET", << "]" >>) >>) /\ PushedBack(<< >>)

BracketMarkers == [][BracketMarkerStep]_vars

\* 'a]]' has been tokenized.
BracketMarkersWitness ==
  /\ Done
  /\ text = << "a", "]", "]" >>
  /\ Len(tokens) = 2
  /\ tokens[2].type = "LINK_END"

(* C16. Pipe markers: the pipe state stores TABLE_END '|}' on '}',         *)
(* TABLE_CAPTION '|+' on '+' and TABLE_ROW '|-' on '-', consuming both     *)
(* characters; on any other character, or at the end of the input, it      *)
(* stores PIPE '|', pushing back the character if there is one. Nothing    *)
(* but the next character decides.                                         *)
PipeMarkerStep ==
  /\ Reads("Pipe", "}") =>
       Appends(<< TV("TABLE_END", << "|", "}" >>) >>) /\ ToDefault
  /\ Reads("Pipe", "+") =>
       Appends(<< TV("TABLE_CAPTION", << "|", "+" >>) >>) /\ ToDefault
  /\ Reads("Pipe", "-") =>
       Appends(<< TV("TABLE_ROW", << "|", "-" >>) >>) /\ ToDefault
  /\ ReadsOther("Pipe", { "}", "+", "-" }) =>
       Appends(<< TV("PIPE", << "|" >>) >>) /\ PushedBack(<< >>)
  /\ (pc = "run" /\ state = "Pipe" /\ pos = Len(text)) =>
       Appends(<< TV("PIPE", << "|" >>) >>) /\ pc' = "done"

PipeMarkers == [][PipeMarkerStep]_vars

\* 'x|-' has been tokenized: a table row marker outside any table.
PipeMarkersWitness ==
  /\ Done
  /\ text = << "x", "|", "-" >>
  /\ Len(tokens) = 2
  /\ tokens[2].type = "TABLE_ROW"

\* The run states with the character and the token kind of each.
RunChar == [Space |-> " ", Hash |-> "#", Dash |-> "-"]

RunKind == [Space |-> "SPACES", Hash |-> "HASHES", Dash |-> "DASHES"]

RunKinds == { "SPACES", "HASHES", "DASHES" }

\* The steps of run state st: the run grows on its own character, is stored
\* whole as one token when another character (for dashes: other than '>')
\* ends it, that character being pushed back, and is flushed at the end of
\* the input.
RunStep(st) ==
  /\ (pc = "run" /\ state = st) =>
       /\ Len(value) >= 1
       /\ value = Repeat(RunChar[st], Len(value))
       /\ value = SubSeq(text, pos - Len(value) + 1, pos)
  /\ Reads(st, RunChar[st]) =>
       /\ tokens' = tokens
       /\ pos' = pos + 1
       /\ state' = st
       /\ value' = Append(value, RunChar[st])
  /\ ReadsOther(st, { RunChar[st], ">" } \ (IF st = "Dash" THEN { } ELSE { ">" })) =>
       /\ Appends(<< TV(RunKind[st], value) >>)
       /\ PushedBack(<< >>)
  /\ (pc = "run" /\ state = st /\ pos = Len(text)) =>
       /\ Appends(<< TV(RunKind[st], value) >>)
       /\ pc' = "done"

RunSteps == [][\A st \in { "Space", "Hash", "Dash" } : RunStep(st)]_vars

NoAdjacentRuns ==
  Done =>
    \A i \in 1..(Len(tokens) - 1) :
      tokens[i].type \in RunKinds => tokens[i + 1].type # tokens[i].type

(* C17. Run collection: a run of spaces, of hashes, or of dashes not ended *)
(* by '>' is stored as exactly one SPACES, HASHES or DASHES token whose    *)
(* value is the whole run, the terminating character being pushed back or  *)
(* the run being flushed at the end of the input; hence no output has two  *)
(* adjacent tokens of the same run kind.                                   *)
RunCollection == RunSteps /\ []NoAdjacentRuns

\* What does hold of the outputs: two adjacent tokens of one run kind are
\* separated in the input by text that produced no token.
AdjacentRunsAreSeparated ==
  (Done /\ ~NoAdjacentRuns) => Concat(tokens) # text

(* C18. Single-character tokens of the default state: on '>', '!', ':' or  *)
(* a newline the default state stores its pending text as a TEXT token if  *)
(* and only if it is non-empty, then a one-character token of kind         *)
(* CLOSE_TAG, EXCLAMATION_MARK, COLON or EOL, and continues in the default *)
(* state with an empty buffer.                                             *)
SingleCharKind ==
  [c \in { ">", "!", ":", "\n" } |->
     CASE c = ">" -> "CLOSE_TAG"
       [] c = "!" -> "EXCLAMATION_MARK"
       [] c = ":" -> "COLON"
       [] OTHER -> "EOL"]

SingleCharStep ==
  \A c \in DOMAIN SingleCharKind :
    Reads("Text", c) =>
      /\ \E flushed \in { IF value = << >>
                            THEN tokens
                            ELSE storeToken(tokens, "TEXT", value, lineNum') } :
           /\ Len(tokens') = Len(flushed) + 1
           /\ SubSeq(tokens', 1, Len(flushed)) = flushed
           /\ TV(tokens'[Len(tokens')].type, tokens'[Len(tokens')].value)
                = TV(SingleCharKind[c], << c >>)
      /\ ToDefault

OffsetOf(i) == Len(Concat(SubSeq(tokens, 1, i - 1)))

\* Number of newline characters among the first n characters of the input.
NewlinesBefore(n) ==
  Cardinality({ j \in 1..n : j <= Len(text) /\ text[j] = "\n" })

(* C19. Token line: the line number of every token of every output is 1    *)
(* plus the number of newline characters in the input before the token's   *)
(* first character. Stated for the outputs whose values concatenate to the *)
(* input, where the first character of each token is known from the output.*)
TokenLine ==
  (Done /\ Concat(tokens) = text) =>
    \A i \in 1..Len(tokens) :
      tokens[i].lineNum = 1 + NewlinesBefore(OffsetOf(i))

\* The text a step has to account for: the pending text and the characters
\* the step consumed.
SourceOfStep == value \o SubSeq(text, pos + 1, pos')

\* The text still pending after a step.
PendingAfter == IF pc' = "done" THEN << >> ELSE value'

\* The pending text of every state is the input text just before the read
\* position.
PendingIsSource ==
  (pc = "run" /\ Len(value) > 0) =>
    /\ Len(value) <= pos
    /\ value = SubSeq(text, pos - Len(value) + 1, pos)

\* Every step that stores tokens appends to the values of the buffer exactly
\* the input text it accounts for, less what stays pending.
ValueIsSourceStep ==
  tokens' # tokens =>
    Concat(tokens') \o PendingAfter = Concat(tokens) \o SourceOfStep

\* Length of the marker that opens the value of a tag state.
TagMarkerLen == IF state = "HtmlEndTag" THEN 2 ELSE 1

\* As ValueIsSourceStep, but a step that stores a TAG_NAME token appends the
\* tag marker as written and the name trimmed and in lower case.
ValueIsSourceOrNormalizedStep ==
  tokens' # tokens =>
    IF tokens'[Len(tokens')].type = "TAG_NAME"
      THEN /\ state \in { "HtmlStartTag", "HtmlEndTag" }
           /\ pos' = pos
           /\ PendingAfter = << >>
           /\ Concat(tokens')
                = Concat(tokens) \o SubSeq(value, 1, TagMarkerLen)
                    \o ToLowerCase(Trim(SubSeq(value, TagMarkerLen + 1, Len(value))))
      ELSE Concat(tokens') \o PendingAfter = Concat(tokens) \o SourceOfStep

(* C20. Token value is source text: every token's value, of every kind     *)
(* including TAG_NAME, is exactly the contiguous substring of the input    *)
(* that the token was produced from.                                       *)
ValueIsSource == [][ValueIsSourceStep]_vars /\ []PendingIsSource

(* C20, amended. Every token's value is exactly the contiguous substring   *)
(* of the input it was produced from, except TAG_NAME, whose value is that *)
(* substring trimmed and in lower case.                                    *)
ValueIsSourceAmended == [][ValueIsSourceOrNormalizedStep]_vars /\ []PendingIsSource

\* '<Div>' has been tokenized: the name is stored in lower case.
ValueIsSourceWitness ==
  /\ Done
  /\ text = << "<", "D", "i", "v", ">" >>
  /\ Kinds(tokens) = << TV("OPEN_START_TAG", << "<" >>),
                        TV("TAG_NAME", << "d", "i", "v" >>),
                        TV("CLOSE_TAG", << ">" >>) >>

\* The states that hold a marker read in part, with the text each holds.
PartialMarkers ==
  [CommentStart |-> { << "<", "!" >>, << "<", "!", "-" >> },
   BraceOpen    |-> { << "{" >> },
   BraceClose   |-> { << "}" >> },
   BracketOpen  |-> { << "[" >> },
   BracketClose |-> { << "]" >> },
   Pipe         |-> { << "|" >> }]

\* The input has ended in state st.
EndsIn(st) == pc = "run" /\ state = st /\ pos = Len(text)

\* The final step stores the held text as one token of the kind.
FlushedAs(kind) ==
  /\ pc' = "done"
  /\ tokens' = storeToken(tokens, kind, value, lineNum)

(* C21. Incomplete marker at end of input: when the input ends after a     *)
(* partial comment-open ('<!', '<!-') or after the first character of a    *)
(* template, table or link marker ('{', '}', '[', ']', '|'), the held      *)
(* characters are stored as plain TEXT.                                    *)
IncompleteMarkerIsText ==
  [][\A st \in DOMAIN PartialMarkers :
       EndsIn(st) => (value \in PartialMarkers[st] /\ FlushedAs("TEXT"))]_vars

\* The kind stored for the text held by each state at the end of the input.
EndKind ==
  [CommentStart |-> "TEXT",
   BraceOpen    |-> "TEXT",
   BraceClose   |-> "TEXT",
   BracketOpen  |-> "OPEN_BRACKET",
   BracketClose |-> "CLOSE_BRACKET",
   Pipe         |-> "PIPE"]

(* C21, amended. At the end of the input a partial comment-open and a      *)
(* single '{' or '}' are stored as plain TEXT; a single '[', ']' or '|' is *)
(* stored as OPEN_BRACKET, CLOSE_BRACKET or PIPE.                          *)
IncompleteMarkerAtEnd ==
  [][\A st \in DOMAIN PartialMarkers :
       EndsIn(st) => (value \in PartialMarkers[st] /\ FlushedAs(EndKind[st]))]_vars

\* 'a<!' has been tokenized: the partial marker joined the text before it.
IncompleteMarkerWitness ==
  /\ Done
  /\ text = << "a", "<", "!" >>
  /\ Kinds(tokens) = << TV("TEXT", << "a", "<", "!" >>) >>

MarkerOf ==
  [EOL              |-> << "\n" >>,
   BOLD             |-> << "'", "'", "'" >>,
   ITALIC           |-> << "'", "'" >>,
   OPEN_START_TAG   |-> << "<" >>,
   OPEN_END_TAG     |-> << "<", "/" >>,
   CLOSE_TAG        |-> << ">" >>,
   COMMENT_BEGIN    |-> << "<", "!", "-", "-" >>,
   COMMENT_END      |-> << "-", "-", ">" >>,
   TEMPLATE_BEGIN   |-> << "{", "{" >>,
   TEMPLATE_END     |-> << "}", "}" >>,
   LINK_BEGIN       |-> << "[", "[" >>,
   LINK_END         |-> << "]", "]" >>,
   OPEN_BRACKET     |-> << "[" >>,
   CLOSE_BRACKET    |-> << "]" >>,
   PIPE             |-> << "|" >>,
   TABLE_BEGIN      |-> << "{", "|" >>,
   TABLE_END        |-> << "|", "}" >>,
   TABLE_ROW        |-> << "|", "-" >>,
   TABLE_CAPTION    |-> << "|", "+" >>,
   EXCLAMATION_MARK |-> << "!" >>]

(* C23. Canonical marker values: every token of a fixed-marker kind holds  *)
(* exactly its marker as value.                                            *)
CanonicalMarkers ==
  \A i \in 1..Len(tokens) :
    tokens[i].type \in DOMAIN MarkerOf => tokens[i].value = MarkerOf[tokens[i].type]

\* '{|!' has been tokenized into two marker tokens.
CanonicalMarkersWitness ==
  /\ Done
  /\ text = << "{", "|", "!" >>
  /\ Kinds(tokens) = << TV("TABLE_BEGIN", << "{", "|" >>),
                        TV("EXCLAMATION_MARK", << "!" >>) >>

ReservedKinds ==
  { "SIGNATURE", "SIGNATURE_DATETIME", "DATE_TIME", "HEADING_BEGIN",
    "HEADING_END", "UNORDERED_LIST_ENTRY", "NUMBERED_LIST_ENTRY",
    "DEFINED_PHRASE", "DEFINITION", "INDENT", "NEW_PARAGRAPH", "END_TAG",
    "EMAIL", "REDIRECT", "FORCETOC", "TOC", "NOTOC", "NBSP", "SPECIAL_CHAR",
    "UNICODE_CHAR" }

RECURSIVE TildeTokens(_)
TildeTokens(k) ==
  IF k >= 5 THEN << TV("DATE_TIME", Repeat("~", 5)) >> \o TildeTokens(k - 5)
  ELSE IF k = 4 THEN << TV("SIGNATURE_DATETIME", Repeat("~", 4)) >>
  ELSE IF k = 3 THEN << TV("SIGNATURE", Repeat("~", 3)) >>
  ELSE IF k >= 1 THEN << TV("TEXT", Repeat("~", k)) >>
  ELSE << >>

(* C26. Tilde runs: a run of tildes is tokenized greedily from the left in *)
(* groups of five: DATE_TIME for each full group, then SIGNATURE_DATETIME  *)
(* for a rest of four, SIGNATURE for three, TEXT for one or two.           *)
TildeRuns ==
  \A k \in 1..MaxTildes :
    (Done /\ text = Repeat("~", k)) => Kinds(tokens) = TildeTokens(k)

\* A colon token: one whose value begins with a colon.
IsColonToken(t) == Len(t.value) >= 1 /\ t.value[1] = ":"

(* C27. Colon runs: a maximal run of k >= 1 colons is stored as a single   *)
(* COLONS token whose value is the whole run, not as k one-character       *)
(* tokens.                                                                 *)
ColonRuns ==
  Done =>
    \A i \in 1..Len(tokens) :
      IsColonToken(tokens[i]) =>
        /\ tokens[i].type = "COLONS"
        /\ tokens[i].value = Repeat(":", Len(tokens[i].value))
        /\ (i < Len(tokens) => ~IsColonToken(tokens[i + 1]))

(* C28. Cursor line invariant: after every skip-ahead and every back-up,   *)
(* hence in every reachable state, the line counter is 1 plus the number   *)
(* of newline characters of the input before the position.                 *)
CursorLine ==
  /\ lineNum = 1 + NewlinesBefore(pos)
  /\ (pc = "run" /\ LoopCond) =>
       /\ Ahead.lineNum = 1 + NewlinesBefore(Ahead.pos)
       /\ Back.lineNum = 1 + NewlinesBefore(Back.pos)

\* ' \n': the space run was ended by the newline, which was pushed back.
CursorLineWitness ==
  /\ pc = "run"
  /\ text = << " ", "\n" >>
  /\ pos = 1
  /\ lineNum = 1
  /\ state = "Text"
  /\ Len(tokens) = 1

RECURSIVE SumSeq(_)
SumSeq(seq) == IF Len(seq) = 0 THEN 0 ELSE Head(seq) + SumSeq(Tail(seq))

\* Number of loop iterations so far.
Iterations == SumSeq(reads)

(* C30. Bounded re-reading: during one tokenize run every input character  *)
(* is handed to a state at most twice, so the loop performs at most twice  *)
(* as many iterations as the input has characters.                         *)
BoundedReading ==
  /\ \A i \in 1..Len(text) : reads[i] <= 2
  /\ Iterations <= 2 * Len(text)

\* A character is read a second time only right after it was pushed back:
\* by the default state, which consumes it.
SecondReadStep ==
  (pc = "run" /\ LoopCond /\ reads[pos + 1] >= 1) =>
    /\ reads[pos + 1] = 1
    /\ state = "Text"
    /\ pos' = pos + 1

SecondRead == [][SecondReadStep]_vars

\* ' a' has been tokenized: the 'a' that ended the space run was read twice.
BoundedReadingWitness ==
  /\ Done
  /\ text = << " ", "a" >>
  /\ reads = << 1, 2 >>

(* C25. Re-entrancy: two invocations of tokenize, on the same or on        *)
(* different inputs, whose loop iterations are interleaved in any order    *)
(* each return the token sequence they return when run alone.              *)
Reentrant ==
  other.phase = 3 =>
    /\ pc = "done" => tokens = other.results[other.active]
    /\ other.susp.pc = "done" =>
         other.susp.tokens = other.results[3 - other.active]

\* Two interleaved invocations on different inputs have both returned; the
\* second to return had been suspended in the middle of a run of spaces.
ReentrantWitness ==
  /\ other.phase = 3
  /\ pc = "done"
  /\ text = << " ", "x" >>
  /\ Len(tokens) = 2
  /\ other.susp.pc = "done"
  /\ other.susp.text = << "<", "!", "-", "\n" >>
  /\ Len(other.susp.tokens) >= 2

Min(a, b) == IF a < b THEN a ELSE b

Max(a, b) == IF a > b THEN a ELSE b

\* A cursor call moves the position by the number of characters asked, but
\* not beyond either end of the input, and returns the new position.
ClampedStep ==
  /\ call'.op = "skipAheadBy" =>
       /\ pos' = Min(pos + call'.n, Len(text))
       /\ call'.ret = pos'
  /\ call'.op = "backUpBy" =>
       /\ pos' = Max(pos - call'.n, 0)
       /\ call'.ret = pos'

(* C29. Cursor clamping: after any sequence of skipAheadBy(n) and          *)
(* backUpBy(n) calls with n >= 0 the position is within 0..length; a call  *)
(* that would leave the range is clamped to the nearest bound, and every   *)
(* call returns the new position.                                          *)
CursorClamping ==
  /\ [](pos >= 0 /\ pos <= Len(text))
  /\ [][ClampedStep]_vars

\* skipAheadBy(3) one character before the end of a two character input.
CursorClampingWitness ==
  /\ pc = "cursor"
  /\ Len(text) = 2
  /\ call = [op |-> "skipAheadBy", n |-> 3, ret |-> 2]
  /\ pos = 2

\* A loop iteration: the step of a state on the character at pos.
Iteration == pc = "run" /\ LoopCond

\* Every iteration leaves the position one character further or, after a
\* pushback, where it was; a pushback is made by another state than the
\* default state and leaves the default state current; the default state
\* always leaves the position one character further.
PushbackStep ==
  Iteration =>
    /\ pos' \in { pos, pos + 1 }
    /\ pos' = pos => (state # "Text" /\ state' = "Text")
    /\ state = "Text" => pos' = pos + 1

(* C31. Pushback discipline: every pushback moves the cursor back by       *)
(* exactly one character, is made only by a non-default state, and leaves  *)
(* the default state current; the default state never pushes back, so the  *)
(* character read again is consumed.                                       *)
PushbackDiscipline == [][PushbackStep]_vars

\* '#a': the hash state has pushed back the 'a', which was read once.
PushbackDisciplineWitness ==
  /\ pc = "run"
  /\ text = << "#", "a" >>
  /\ pos = 1
  /\ state = "Text"
  /\ reads = << 1, 1 >>
  /\ Len(tokens) = 1

\* seq without its last element.
Front(seq) == SubSeq(seq, 1, Len(seq) - 1)

Last(seq) == seq[Len(seq)]

\* The buffer after is the buffer before with its last token, a TEXT token,
\* replaced by a longer TEXT token of the same line, and more tokens or none
\* after it.
MergedStep ==
  /\ Len(tokens) >= 1
  /\ Len(tokens') >= Len(tokens)
  /\ Front(tokens) = SubSeq(tokens', 1, Len(tokens) - 1)
  /\ Last(tokens).type = "TEXT"
  /\ tokens'[Len(tokens)].type = "TEXT"
  /\ tokens'[Len(tokens)].lineNum = Last(tokens).lineNum
  /\ Len(tokens'[Len(tokens)].value) > Len(Last(tokens).value)
  /\ StartsWith(tokens'[Len(tokens)].value, Last(tokens).value)

AppendedStep ==
  /\ Len(tokens') >= Len(tokens)
  /\ tokens = SubSeq(tokens', 1, Len(tokens))

(* C32. Append-only buffer: in every step of tokenization the buffer       *)
(* before the step is a prefix of the buffer after it, except that a last  *)
(* TEXT token may be replaced by a TEXT token whose value is the old value *)
(* followed by new text and whose line number is that of the replaced      *)
(* token.                                                                  *)
AppendOnly == [][AppendedStep \/ MergedStep]_vars

\* 'a{\n' has been tokenized: the '{' stored at line 2 was merged into the
\* TEXT token of line 1.
AppendOnlyWitness ==
  /\ Done
  /\ text = << "a", "{", "\n" >>
  /\ Len(tokens) = 2
  /\ tokens[1] = Token("TEXT", << "a", "{" >>, tokens[1].lineNum)
  /\ tokens[1].lineNum < tokens[2].lineNum

\* Characters are read only while the position is before the end of the
\* input; the step that returns is the termination of the current state at
\* the end of the input; nothing happens after it.
LoopStep ==
  /\ pc # "done"
  /\ pc' = "run" =>
       /\ pos < Len(text)
       /\ reads' = [reads EXCEPT ![pos + 1] = @ + 1]
  /\ pc' = "done" =>
       /\ pos = Len(text)
       /\ tokens' = terminate(state, tokens, value, lineNum)
       /\ UNCHANGED << pos, state, value, reads >>

(* C33. Driving-loop order: states receive characters only while position  *)
(* < length; terminate is invoked exactly once, on the state that is       *)
(* current when the position equals the input length, and no character is  *)
(* read and no state changes after it.                                     *)
LoopOrder == [][LoopStep]_vars /\ <>Done

\* "''" has been tokenized: the quote state, current at the end of the
\* input, stored the italic marker when it terminated.
LoopOrderWitness ==
  /\ Done
  /\ text = << "'", "'" >>
  /\ state = "Quote"
  /\ pos = 2
  /\ reads = << 1, 1 >>
  /\ Len(tokens) = 1

\* The character, trimmed and in lower case, begins the name of some tag.
BeginsTagName(c) ==
  \E tag \in TagNames : StartsWith(tag, ToLowerCase(Trim(<< c >>)))

\* The step keeps the buffer and continues in state st with the character
\* added to the value.
ContinuesIn(st) ==
  /\ tokens' = tokens
  /\ pos' = pos + 1
  /\ state' = st
  /\ value' = Append(value, text[pos + 1])

OpenAngleStep ==
  /\ (pc = "run" /\ state = "AngleBracketOpen") => value = << "<" >>
  /\ Reads("AngleBracketOpen", "/") =>
       (ContinuesIn("HtmlEndTag") /\ value' = << "<", "/" >>)
  /\ Reads("AngleBracketOpen", "!") =>
       (ContinuesIn("CommentStart") /\ value' = << "<", "!" >>)
  /\ \A c \in WhiteSpace : Reads("AngleBracketOpen", c) => ContinuesIn("HtmlStartTag")
  /\ ReadsOther("AngleBracketOpen", { "/", "!" }) =>
       IF BeginsTagName(text[pos + 1])
         THEN ContinuesIn("HtmlStartTag")
         ELSE /\ tokens' = storeToken(tokens, "TEXT", << "<" >>, lineNum')
              /\ PushedBack(<< >>)
  /\ EndsIn("AngleBracketOpen") => FlushedAs("TEXT")

(* C34. Open-angle dispatch: in the open-angle state (value '<') the       *)
(* character '/' leads to the end-tag state with value '</', '!' to the    *)
(* comment-start state with value '<!', any character that is a tag prefix *)
(* (every whitespace character included) to the start-tag state, and any   *)
(* other character stores TEXT '<' and is pushed back; at the end of the   *)
(* input TEXT '<' is stored.                                               *)
OpenAngleDispatch == [][OpenAngleStep]_vars

\* '< x': the space after '<' has led to the start tag state.
OpenAngleDispatchWitness ==
  /\ pc = "run"
  /\ text = << "<", " ", "x" >>
  /\ state = "HtmlStartTag"
  /\ value = << "<", " " >>
  /\ pos = 2

(* C35. Closed kind enumeration: the kind of every token stored by the     *)
(* tokenizer is a member of the TokenType enumeration, in particular the   *)
(* kinds used for '>' and for ':'.                                         *)
KindsDeclared ==
  \A i \in 1..Len(tokens) : tokens[i].type \in TokenType

\* Number of '>' characters in seq.
Angles(seq) == Cardinality({ i \in 1..Len(seq) : seq[i] = ">" })

(* C36. Closing angle never becomes text: every '>' of the input is stored *)
(* either as a one-character CLOSE_TAG token or as the last character of a *)
(* COMMENT_END token; no TEXT token value contains '>'.                    *)
CloseAngleNotText ==
  /\ \A i \in 1..Len(tokens) :
       Angles(tokens[i].value) > 0 =>
         \/ tokens[i] = Token("CLOSE_TAG", << ">" >>, tokens[i].lineNum)
         \/ tokens[i] = Token("COMMENT_END", << "-", "-", ">" >>, tokens[i].lineNum)
  /\ Done => Angles(Concat(tokens)) = Angles(text)

\* '<!>' has been tokenized: the '>' that ended the abandoned comment marker
\* is a token of its own.
CloseAngleNotTextWitness ==
  /\ Done
  /\ text = << "<", "!", ">" >>
  /\ Kinds(tokens) = << TV("TEXT", << "<", "!" >>), TV("CLOSE_TAG", << ">" >>) >>

(* C37. Monotone lines: in every output the line numbers of the tokens are *)
(* non-decreasing from the first token to the last, and each is between 1  *)
(* and 1 + the number of newlines of the input.                            *)
MonotoneLines ==
  Done =>
    /\ \A i \in 1..Len(tokens) :
         tokens[i].lineNum >= 1 /\ tokens[i].lineNum <= 1 + NewlinesBefore(Len(text))
    /\ \A i \in 1..(Len(tokens) - 1) : tokens[i].lineNum <= tokens[i + 1].lineNum

\* ' \n' has been tokenized: the space run was stored after the newline was
\* read and before it was pushed back.
MonotoneLinesWitness ==
  /\ Done
  /\ text = << " ", "\n" >>
  /\ Len(tokens) = 2
  /\ tokens[1].lineNum = 2
  /\ tokens[2].lineNum = 2

TagMarkerKinds == { "OPEN_START_TAG", "OPEN_END_TAG" }

(* C38. Tag tokens come in pairs: in every output each TAG_NAME token is   *)
(* immediately preceded by an OPEN_START_TAG or OPEN_END_TAG token, and    *)
(* each OPEN_START_TAG or OPEN_END_TAG token is immediately followed by a  *)
(* TAG_NAME token.                                                         *)
TagPairs ==
  \A i \in 1..Len(tokens) :
    /\ tokens[i].type = "TAG_NAME" =>
         (i > 1 /\ tokens[i - 1].type \in TagMarkerKinds)
    /\ tokens[i].type \in TagMarkerKinds =>
         (i < Len(tokens) /\ tokens[i + 1].type = "TAG_NAME")

\* '</p>' has been tokenized.
TagPairsWitness ==
  /\ Done
  /\ text = << "<", "/", "p", ">" >>
  /\ Kinds(tokens) = << TV("OPEN_END_TAG", << "<", "/" >>),
                        TV("TAG_NAME", << "p" >>),
                        TV("CLOSE_TAG", << ">" >>) >>

\* A call of lookBackBy(n) returns the Min(n, pos - 1) characters before the
\* character at index pos - 1, nothing when pos <= 1, and leaves position,
\* line counter and token buffer as they were.
LookBackStep ==
  call'.op = "lookBackBy" =>
    /\ call'.ret = IF pos <= 1
                     THEN << >>
                     ELSE SubSeq(text, pos - Min(call'.n, pos - 1), pos - 1)
    /\ Len(call'.ret) = IF pos <= 1 THEN 0 ELSE Min(call'.n, pos - 1)
    /\ UNCHANGED << pos, lineNum, tokens >>

(* C39. Look-back: lookBackBy(n) returns the min(n, position - 1)          *)
(* characters of the input that immediately precede the character in       *)
(* flight at index position - 1, the empty string when position <= 1, and  *)
(* changes neither position, line counter nor token buffer.                *)
LookBack == [][LookBackStep]_vars

\* lookBackBy(3) with two characters before the one in flight.
LookBackWitness ==
  /\ pc = "cursor"
  /\ pos = 3
  /\ call = [op |-> "lookBackBy", n |-> 3, ret |-> << "a", "\n" >>]

====
